---- MODULE Spec2Model ----
(***************************************************************************)
(* Model of internal/rest/article.go: the four article route handlers      *)
(* (FetchArticle, GetByID, Store, Delete), the error translator ReturnErr  *)
(* and the status classifier getStatusCode, running against an arbitrary   *)
(* ArticleService collaborator and a fiber request context.                *)
(*                                                                         *)
(* Query and path parameters are sequences of one-character strings so     *)
(* that strconv.Atoi is computed digit by digit.  Response bodies are the  *)
(* JSON text the handlers produce.  The JSON encoder is fiber's default    *)
(* (encoding/json), which cannot fail on the values written here, so       *)
(* c.JSON always returns a nil error.  Texts in the model contain no       *)
(* character that JSON escapes.                                            *)
(***************************************************************************)
EXTENDS Integers, Sequences, FiniteSets, TLC

VARIABLES req, calls, reply, ctx, ret, everCalled

vars == <<req, calls, reply, ctx, ret, everCalled>>

-----------------------------------------------------------------------------
(* Bounds *)

\* longest `num` query value / `id` path value, in characters
MaxLen == 2

\* longest article list the collaborator returns
MaxList == 2

\* characters a parameter is made of: digits, signs and a non-digit
Alphabet == {"0", "1", "7", "-", "+", "x"}

Texts == UNION {[1..n -> Alphabet] : n \in 0..MaxLen}

Cursors == {"", "c7", "c9"}

Bodies == {"", "{\"title\":\"t\"}"}

-----------------------------------------------------------------------------
(* Program constants *)

defaultNum == 10

StatusOK == 200
StatusNotFound == 404
StatusConflict == 409
StatusInternalServerError == 500

-----------------------------------------------------------------------------
(* domain package: Article and the sentinel errors *)

ZeroArticle == [ID |-> 0, Title |-> ""]

Articles == {[ID |-> 1, Title |-> "a"], [ID |-> 2, Title |-> "b"]}

\* what the collaborator may leave in the article handed to Store
StoredArticles == {ZeroArticle, [ID |-> 3, Title |-> ""]} \cup Articles

Lists == UNION {[1..n -> Articles] : n \in 0..MaxList}

\* error values; "nil" is the nil error, ErrOther / ErrEmpty are errors that
\* are none of the domain sentinels
Errs == {"nil", "ErrInternalServerError", "ErrNotFound", "ErrConflict",
         "ErrOther", "ErrEmpty"}

ErrorText(e) ==
    CASE e = "ErrInternalServerError" -> "internal Server Error"
      [] e = "ErrNotFound" -> "not found"
      [] e = "ErrConflict" -> "conflict"
      [] e = "ErrOther" -> "boom"
      [] e = "ErrEmpty" -> ""

-----------------------------------------------------------------------------
(* strconv.Atoi *)

IsDigit(ch) == ch \in {"0", "1", "2", "3", "4", "5", "6", "7", "8", "9"}

DigitVal(ch) ==
    CASE ch = "0" -> 0 [] ch = "1" -> 1 [] ch = "2" -> 2 [] ch = "3" -> 3
      [] ch = "4" -> 4 [] ch = "5" -> 5 [] ch = "6" -> 6 [] ch = "7" -> 7
      [] ch = "8" -> 8 [] ch = "9" -> 9

RECURSIVE Digits(_, _)
\* n*10 + digit over the characters of s, starting from n
Digits(s, n) ==
    IF s = <<>> THEN n ELSE Digits(Tail(s), n * 10 + DigitVal(Head(s)))

\* [val, err]: err = "nil" when s is an optional sign followed by one or
\* more decimal digits; otherwise val = 0 and err = "syntax"
Atoi(s) ==
    LET signed == s # <<>> /\ Head(s) \in {"-", "+"}
        ds == IF signed THEN Tail(s) ELSE s
    IN  IF ds = <<>> \/ \E i \in 1..Len(ds) : ~IsDigit(ds[i])
        THEN [val |-> 0, err |-> "syntax"]
        ELSE [val |-> IF Head(s) = "-" THEN -Digits(ds, 0) ELSE Digits(ds, 0),
              err |-> "nil"]

-----------------------------------------------------------------------------
(* JSON encoding of the values the handlers write *)

Quote(s) == "\"" \o s \o "\""

\* errRep has `json:"message,omitempty"`: an empty Message is left out
JSONErrRep(msg) ==
    IF msg = "" THEN "{}" ELSE "{\"message\":" \o Quote(msg) \o "}"

JSONArticle(a) ==
    "{\"id\":" \o ToString(a.ID) \o ",\"title\":" \o Quote(a.Title) \o "}"

RECURSIVE JSONElems(_)
JSONElems(l) ==
    IF Len(l) = 1 THEN JSONArticle(l[1])
    ELSE JSONArticle(Head(l)) \o "," \o JSONElems(Tail(l))

JSONList(l) == IF l = <<>> THEN "[]" ELSE "[" \o JSONElems(l) \o "]"

JSONInt(n) == ToString(n)

-----------------------------------------------------------------------------
(* fiber.Ctx: the response under construction *)

MIMEApplicationJSON == "application/json"

\* the context of a request before its handler has run
FreshCtx == [status |-> StatusOK, ctype |-> "", body |-> "", hdr |-> {},
             trace |-> <<>>]

\* c.JSON(data, ctype...): the body is replaced by the encoding, the content
\* type is ctype when given (# "") and application/json otherwise; the status
\* is left alone.  Returns the context and the (nil) encoder error.
CtxJSON(c, text, ctype) ==
    [c |-> [c EXCEPT !.body = text,
                     !.ctype = IF ctype # "" THEN ctype ELSE MIMEApplicationJSON,
                     !.trace = Append(@, "JSON")],
     err |-> "nil"]

\* c.Set(key, val): the response header key is set to val
CtxSet(c, key, val) ==
    [c EXCEPT !.hdr = {p \in @ : p[1] # key} \cup {<<key, val>>},
              !.trace = Append(@, "Set")]

-----------------------------------------------------------------------------
(* Collaborator calls and replies *)

Methods == {"Fetch", "GetByID", "Update", "GetByTitle", "Store", "Delete"}

Call(m, cursor, num, id, art) ==
    [m |-> m, cursor |-> cursor, num |-> num, id |-> id, art |-> art]

FetchCall(cursor, num) == Call("Fetch", cursor, num, 0, ZeroArticle)
GetByIDCall(id) == Call("GetByID", "", 0, id, ZeroArticle)
StoreCall(art) == Call("Store", "", 0, 0, art)
DeleteCall(id) == Call("Delete", "", 0, id, ZeroArticle)

\* what a collaborator method returns: Fetch uses list, next, err;
\* GetByID uses art, err; Store leaves art in the pointed-to article and
\* returns err; Delete returns err
Replies == [list : Lists, next : Cursors, art : StoredArticles, err : Errs]

NoReply == [list |-> <<>>, next |-> "", art |-> ZeroArticle, err |-> "nil"]

FetchReplies == {r \in Replies : r.art = ZeroArticle}
GetByIDReplies == {r \in Replies : r.list = <<>> /\ r.next = ""}
StoreReplies == GetByIDReplies
DeleteReplies == {r \in GetByIDReplies : r.art = ZeroArticle}

-----------------------------------------------------------------------------
(* The handlers.  Each takes the fresh context c, the request's parameters *)
(* and the reply r the collaborator gives if it is called, and yields the  *)
(* context it leaves, the collaborator calls it made and its return value. *)

Done(c, cs, rv) == [c |-> c, calls |-> cs, ret |-> rv]

\* ParseNum without the `num == 0` test
ParseNum_noZeroCheck(numS) ==
    LET a == Atoi(numS)
    IN  IF a.err # "nil" THEN defaultNum ELSE a.val

\* ParseNum testing `num <= 0` where the code tests `num == 0`
ParseNum_rejectNegative(numS) ==
    LET a == Atoi(numS)
    IN  IF a.err # "nil" \/ a.val <= 0 THEN defaultNum ELSE a.val

\* lines 53-57: the page size FetchArticle uses for the query value numS
ParseNum(numS) ==
    LET a == Atoi(numS)
    IN  IF a.err # "nil" \/ a.val = 0 THEN defaultNum ELSE a.val

\* lines 76-82: writes the error body when er is non-nil; rep is what
\* c.JSON returned, and nil when er is nil
ReturnErr(c, er) ==
    IF er # "nil"
    THEN LET j == CtxJSON(c, JSONErrRep(ErrorText(er)), "")
         IN  [c |-> j.c, rep |-> j.err]
    ELSE [c |-> c, rep |-> "nil"]

\* FetchArticle setting X-Cursor to the request's cursor
FetchArticle_echoCursor(c, numS, cursor, r) ==
    LET num == ParseNum(numS)
        cs == <<FetchCall(cursor, num)>>
        e == ReturnErr(c, r.err)
    IN  IF e.rep # "nil"
        THEN Done(e.c, cs, e.rep)
        ELSE LET c2 == CtxSet(e.c, "X-Cursor", cursor)
                 j == CtxJSON(c2, JSONList(r.list), "")
             IN  Done(j.c, cs, j.err)

\* lines 51-70
FetchArticle(c, numS, cursor, r) ==
    LET num == ParseNum(numS)
        cs == <<FetchCall(cursor, num)>>
        e == ReturnErr(c, r.err)
    IN  IF e.rep # "nil"
        THEN Done(e.c, cs, e.rep)
        ELSE LET c2 == CtxSet(e.c, "X-Cursor", r.next)
                 j == CtxJSON(c2, JSONList(r.list), "")
             IN  Done(j.c, cs, j.err)

\* lines 85-99
GetByID(c, idS, r) ==
    LET a == Atoi(idS)
    IN  IF a.err # "nil"
        THEN LET j == CtxJSON(c, JSONInt(StatusNotFound), ErrorText("ErrNotFound"))
             IN  Done(j.c, <<>>, j.err)
        ELSE LET cs == <<GetByIDCall(a.val)>>
                 e == ReturnErr(c, r.err)
             IN  IF e.rep # "nil"
                 THEN Done(e.c, cs, e.rep)
                 ELSE LET j == CtxJSON(e.c, JSONArticle(r.art), "")
                      IN  Done(j.c, cs, j.err)

\* Store answering with the article it constructed, not the one the
\* collaborator filled in (the article passed by value)
Store_respondsZero(c, body, r) ==
    LET article == ZeroArticle
        cs == <<StoreCall(article)>>
        e == ReturnErr(c, r.err)
    IN  IF e.rep # "nil"
        THEN Done(e.c, cs, e.rep)
        ELSE LET j == CtxJSON(e.c, JSONArticle(article), "")
             IN  Done(j.c, cs, j.err)

\* lines 111-129: the request body is not read; the collaborator gets a
\* pointer to the zero article and leaves r.art in it
Store(c, body, r) ==
    LET article == ZeroArticle
        cs == <<StoreCall(article)>>
        stored == r.art
        e == ReturnErr(c, r.err)
    IN  IF e.rep # "nil"
        THEN Done(e.c, cs, e.rep)
        ELSE LET j == CtxJSON(e.c, JSONArticle(stored), "")
             IN  Done(j.c, cs, j.err)

\* Delete answering a successful deletion with a JSON body
Delete_ackBody(c, idS, r) ==
    LET a == Atoi(idS)
    IN  IF a.err # "nil"
        THEN LET j == CtxJSON(c, JSONInt(StatusNotFound), ErrorText("ErrNotFound"))
             IN  Done(j.c, <<>>, j.err)
        ELSE LET cs == <<DeleteCall(a.val)>>
                 e == ReturnErr(c, r.err)
             IN  IF e.rep # "nil"
                 THEN Done(e.c, cs, e.rep)
                 ELSE LET j == CtxJSON(e.c, JSONInt(a.val), "")
                      IN  Done(j.c, cs, j.err)

\* Delete looking the article up with GetByID before deleting it
Delete_lookupFirst(c, idS, r) ==
    LET a == Atoi(idS)
    IN  IF a.err # "nil"
        THEN LET j == CtxJSON(c, JSONInt(StatusNotFound), ErrorText("ErrNotFound"))
             IN  Done(j.c, <<>>, j.err)
        ELSE LET cs == <<GetByIDCall(a.val), DeleteCall(a.val)>>
                 e == ReturnErr(c, r.err)
             IN  IF e.rep # "nil"
                 THEN Done(e.c, cs, e.rep)
                 ELSE Done(e.c, cs, "nil")

\* lines 132-146
Delete(c, idS, r) ==
    LET a == Atoi(idS)
    IN  IF a.err # "nil"
        THEN LET j == CtxJSON(c, JSONInt(StatusNotFound), ErrorText("ErrNotFound"))
             IN  Done(j.c, <<>>, j.err)
        ELSE LET cs == <<DeleteCall(a.val)>>
                 e == ReturnErr(c, r.err)
             IN  IF e.rep # "nil"
                 THEN Done(e.c, cs, e.rep)
                 ELSE Done(e.c, cs, "nil")

\* lines 148-164 (the logrus.Error side effect is not part of the response)
getStatusCode(err) ==
    IF err = "nil" THEN StatusOK
    ELSE CASE err = "ErrInternalServerError" -> StatusInternalServerError
           [] err = "ErrNotFound" -> StatusNotFound
           [] err = "ErrConflict" -> StatusConflict
           [] OTHER -> StatusInternalServerError

-----------------------------------------------------------------------------
(* Requests.  A request is served on a fresh context (fiber acquires one   *)
(* per request and releases it when the handler has returned).             *)

Request(method, path, num, cursor, id, body) ==
    [method |-> method, path |-> path, num |-> num, cursor |-> cursor,
     id |-> id, body |-> body]

NoRequest == Request("", "", <<>>, "", <<>>, "")

\* lines 44-47: the route table
Route(method, path) ==
    CASE method = "GET" /\ path = "/articles" -> "FetchArticle"
      [] method = "POST" /\ path = "/articles" -> "Store"
      [] method = "GET" /\ path = "/articles/:id" -> "GetByID"
      [] method = "DELETE" /\ path = "/articles/:id" -> "Delete"
      [] OTHER -> "none"

\* a path parameter is never empty
IdTexts == Texts \ {<<>>}

Init ==
    /\ req = NoRequest
    /\ calls = <<>>
    /\ reply = NoReply
    /\ ctx = FreshCtx
    /\ ret = "nil"
    /\ everCalled = {}

Idle == req = NoRequest

\* the state a handler's result h leaves for request q, the collaborator
\* having r ready
Serve(q, r, h) ==
    /\ req' = q
    /\ calls' = h.calls
    /\ reply' = IF h.calls = <<>> THEN NoReply ELSE r
    /\ ctx' = h.c
    /\ ret' = h.ret
    /\ everCalled' = everCalled \cup {h.calls[i].m : i \in 1..Len(h.calls)}

DoFetchArticle ==
    /\ Idle
    /\ \E numS \in Texts, cursor \in Cursors, r \in FetchReplies :
         LET q == Request("GET", "/articles", numS, cursor, <<>>, "")
         IN  /\ Route(q.method, q.path) = "FetchArticle"
             /\ Serve(q, r, FetchArticle(FreshCtx, numS, cursor, r))

DoGetByID ==
    /\ Idle
    /\ \E idS \in IdTexts, r \in GetByIDReplies :
         LET q == Request("GET", "/articles/:id", <<>>, "", idS, "")
         IN  /\ Route(q.method, q.path) = "GetByID"
             /\ Serve(q, r, GetByID(FreshCtx, idS, r))

DoStore ==
    /\ Idle
    /\ \E body \in Bodies, r \in StoreReplies :
         LET q == Request("POST", "/articles", <<>>, "", <<>>, body)
         IN  /\ Route(q.method, q.path) = "Store"
             /\ Serve(q, r, Store(FreshCtx, body, r))

DoDelete ==
    /\ Idle
    /\ \E idS \in IdTexts, r \in DeleteReplies :
         LET q == Request("DELETE", "/articles/:id", <<>>, "", idS, "")
         IN  /\ Route(q.method, q.path) = "Delete"
             /\ Serve(q, r, Delete(FreshCtx, idS, r))

\* the response has been sent and the context released
Release ==
    /\ ~Idle
    /\ req' = NoRequest
    /\ calls' = <<>>
    /\ reply' = NoReply
    /\ ctx' = FreshCtx
    /\ ret' = "nil"
    /\ UNCHANGED everCalled

Next == DoFetchArticle \/ DoGetByID \/ DoStore \/ DoDelete \/ Release

Spec == Init /\ [][Next]_vars

-----------------------------------------------------------------------------
(* Properties *)

\* the request being answered was routed to handler h
Served(h) == ~Idle /\ Route(req.method, req.path) = h

\* the collaborator was called for the request being answered
Called == calls # <<>>

ServedMethods == {"Fetch", "GetByID", "Store", "Delete"}

\* C1: in FetchArticle, a `num` query value that fails integer parsing
\* (the empty value included) or parses to zero makes the handler call the
\* collaborator's Fetch with page size exactly 10.
C1_DefaultPageSize ==
    (Served("FetchArticle") /\ (Atoi(req.num).err # "nil" \/ Atoi(req.num).val = 0))
        => (Len(calls) = 1 /\ calls[1].m = "Fetch" /\ calls[1].num = 10)

\* a `num` of "00" parses to zero and Fetch got 10
C1_Witness ==
    /\ Served("FetchArticle")
    /\ req.num = <<"0", "0">>
    /\ Called /\ calls[1].num = 10

\* C2: FetchArticle forwards its parameters unchanged: a `num` that parses
\* to a positive or a negative integer reaches Fetch with that value, and
\* the cursor reaches Fetch exactly as received, the empty string included.
C2_ParamsForwarded ==
    Served("FetchArticle")
        => /\ Len(calls) = 1 /\ calls[1].m = "Fetch"
           /\ calls[1].cursor = req.cursor
           /\ (Atoi(req.num).err = "nil" /\ Atoi(req.num).val # 0)
                 => calls[1].num = Atoi(req.num).val

\* a `num` of "-7" with a non-empty cursor reached Fetch as -7
C2_Witness ==
    /\ Served("FetchArticle")
    /\ req.num = <<"-", "7">> /\ req.cursor = "c7"
    /\ Called /\ calls[1].num = -7 /\ calls[1].cursor = "c7"

\* C3: when Fetch returns a nil error, the X-Cursor response header is the
\* nextCursor Fetch returned and the body is the returned articles in the
\* order Fetch returned them.
C3_CursorRoundTrip ==
    (Served("FetchArticle") /\ reply.err = "nil")
        => /\ ctx.hdr = {<<"X-Cursor", reply.next>>}
           /\ ctx.body = JSONList(reply.list)

\* Fetch succeeded with two different articles and a next cursor that is
\* not the request's cursor
C3_Witness ==
    /\ Served("FetchArticle") /\ reply.err = "nil"
    /\ Len(reply.list) = 2 /\ reply.list[1].ID = 2 /\ reply.list[2].ID = 1
    /\ req.cursor = "c7" /\ reply.next = "c9"
    /\ <<"X-Cursor", "c9">> \in ctx.hdr

\* C4: for a non-integer `id`, GetByID and Delete answer with the HTTP
\* not-found status and do not call the collaborator.
C4_BadIdNotFound ==
    ((Served("GetByID") \/ Served("Delete")) /\ Atoi(req.id).err # "nil")
        => (ctx.status = 404 /\ calls = <<>>)

\* C5: for every non-nil collaborator error, in each operation, the body is
\* the JSON object {"message": <error text>}, also for the empty text.
C5_ErrorBody ==
    (Called /\ reply.err # "nil")
        => ctx.body = "{\"message\":" \o Quote(ErrorText(reply.err)) \o "}"

\* C6: every error response carries the status getStatusCode computes for
\* the collaborator's error.
C6_ErrorStatus ==
    (Called /\ reply.err # "nil") => ctx.status = getStatusCode(reply.err)

\* C7: for a nil collaborator error no error response is written and the
\* success response is returned: the list and the X-Cursor header for
\* FetchArticle, the returned article for GetByID, the stored article for
\* Store, an empty body for Delete.
C7_SuccessResponse ==
    (Called /\ reply.err = "nil")
        => /\ ret = "nil"
           /\ Served("FetchArticle")
                 => /\ ctx.trace = <<"Set", "JSON">>
                    /\ ctx.hdr = {<<"X-Cursor", reply.next>>}
                    /\ ctx.body = JSONList(reply.list)
           /\ Served("GetByID")
                 => (ctx.trace = <<"JSON">> /\ ctx.body = JSONArticle(reply.art))
           /\ Served("Store")
                 => (ctx.trace = <<"JSON">> /\ ctx.body = JSONArticle(reply.art))
           /\ Served("Delete")
                 => (ctx.trace = <<>> /\ ctx.body = "" /\ ctx.hdr = {})

\* Delete of id 7 succeeded and nothing was written
C7_Witness ==
    /\ Served("Delete") /\ Called /\ reply.err = "nil"
    /\ calls[1].id = 7
    /\ ctx.body = ""

\* C8: when Fetch returns a non-nil error, FetchArticle stops at the error
\* response: no X-Cursor header is set and the list is not written.
C8_FetchShortCircuit ==
    (Served("FetchArticle") /\ reply.err # "nil")
        => /\ ctx.hdr = {}
           /\ ctx.trace = <<"JSON">>
           /\ ctx.body = JSONErrRep(ErrorText(reply.err))

C10_OneMatchingCall ==
    /\ Len(calls) <= 1
    /\ everCalled \subseteq ServedMethods
    /\ Called =>
         /\ Served("FetchArticle") => calls[1].m = "Fetch"
         /\ Served("GetByID") =>
              (calls[1].m = "GetByID" /\ Atoi(req.id).err = "nil"
               /\ calls[1].id = Atoi(req.id).val)
         /\ Served("Store") => calls[1].m = "Store"
         /\ Served("Delete") =>
              (calls[1].m = "Delete" /\ Atoi(req.id).err = "nil"
               /\ calls[1].id = Atoi(req.id).val)

\* all four routes have been served and the last one deleted id -7
C10_Witness ==
    /\ everCalled = ServedMethods
    /\ Served("Delete") /\ req.id = <<"-", "7">>
    /\ calls = <<DeleteCall(-7)>>

====
